---- MODULE Spec2Model ----
(***************************************************************************)
(* HyperBitBit (src/src/lib.rs): a cardinality sketch of two 64-bit        *)
(* bitsets and an 8-bit scale exponent.                                     *)
(*                                                                          *)
(* A u64 is modelled by the set of its set bit positions (0 = least        *)
(* significant, 63 = most significant), so that shifts, leading_zeros and  *)
(* count_ones are computed on all 64 bits.  A u8 or u32 is an integer with *)
(* its range checked where the code does arithmetic on it.                 *)
(***************************************************************************)
EXTENDS Integers, FiniteSets, Sequences, TLC

VARIABLES
    lgn,        \* HyperBitBit.lgn: u8
    sketch1,    \* HyperBitBit.sketch1: u64, as its set of set bits
    sketch2,    \* HyperBitBit.sketch2: u64, as its set of set bits
    fault,      \* "none", or the arithmetic fault an operation stopped on
    inserted,   \* the number of insert calls so far, counted up to MaxCount
    returned,   \* NoCall, or the exponent (in 160ths) of the value the most
                \* recent cardinality() returned, when no insert followed it
    seen1,      \* history: buckets of which an element of rank > lgn was
                \* inserted (those the inserts since the last rescale and the
                \* rescales themselves account for)
    seen2       \* history: buckets of which an element of rank > lgn + 1 was
                \* inserted since the last rescale

vars == <<lgn, sketch1, sketch2, fault, inserted, returned, seen1, seen2>>

(***************************************************************************)
(* Bounds of the explored inputs.                                          *)
(***************************************************************************)
\* Buckets 0..Loose-1 are inserted in any order with any rank; the other
\* buckets are first used in ascending order (see Canonical).
Loose == 1
\* The ranks offered at and just above the initial scale: 5 .. 5 + LowRanks.
LowRanks == 2
\* The ranks offered at the top of the range: 59 - HighRanks .. 58.
HighRanks == 1
\* The insert calls are counted up to MaxCount.
MaxCount == 3

(***************************************************************************)
(* u64 primitives.                                                         *)
(***************************************************************************)
U64Bits == 0 .. 63

Min(S) == CHOOSE m \in S : \A x \in S : m <= x

Max(S) == CHOOSE m \in S : \A x \in S : x <= m

\* x << n on u64: bits shifted past bit 63 are lost.
Shl(x, n) == {b + n : b \in x} \cap U64Bits

\* x >> n on u64.
Shr(x, n) == {b - n : b \in {c \in x : c >= n}}

\* u64::leading_zeros
leading_zeros(x) == IF x = {} THEN 64 ELSE 63 - Max(x)

\* u64::count_ones
count_ones(x) == Cardinality(x)

\* The number a u64 below 2^31 stands for.
RECURSIVE ToNat(_)
ToNat(x) ==
    IF x = {} THEN 0 ELSE LET b == CHOOSE c \in x : TRUE IN 2 ^ b + ToNat(x \ {b})

(***************************************************************************)
(* HyperBitBit                                                             *)
(***************************************************************************)
NoCall == 0 - 1

\* impl Default: the scale a sketch starts with.
DefaultLgn == 5

\* Mutant of bucket: shifts of 57, which keep 7 bits.
bucket_shift57(h) == ToNat(Shr(Shl(h, 57), 57))

\* let k: u64 = (hash_val << 58) >> 58;
bucket(h) == ToNat(Shr(Shl(h, 58), 58))

\* Mutant of zeros: the hash shifted by 5, one bit short.
zeros_shift5(h) == leading_zeros(Shr(h, 5))

\* (hash_val >> 6).leading_zeros(), a u32
zeros(h) == leading_zeros(Shr(h, 6))

\* The u32 subtraction `.leading_zeros() - 6` cannot be done below 6.
SubFaults(h) == zeros(h) < 6

\* Mutant of rank: 5 subtracted, so that the rank reaches 59.
rank_minus5(h) == zeros(h) - 5

\* let r: u64 = ((hash_val >> 6).leading_zeros() - 6).into();
rank(h) == zeros(h) - 6

\* 1_u64 << k overflows for a shift of 64 or more.
ShlFaults(k) == k >= 64

\* Mutant of set1: the bit toggled (^=) instead of set (|=).
set1_xor(s1, l, k, r) ==
    IF r > l THEN (s1 \cup Shl({0}, k)) \ (s1 \cap Shl({0}, k)) ELSE s1

\* Mutant of set1: the threshold of sketch2, r > lgn + 1, used for sketch1.
set1_above1(s1, l, k, r) == IF r > l + 1 THEN s1 \cup Shl({0}, k) ELSE s1

\* Mutant of set1: the bit assigned (=) instead of set (|=).
set1_assign(s1, l, k, r) == IF r > l THEN Shl({0}, k) ELSE s1

\* Mutant of set1: r >= lgn in place of r > lgn.
set1_geq(s1, l, k, r) == IF r >= l THEN s1 \cup Shl({0}, k) ELSE s1

\* if r > self.lgn.into() { self.sketch1 |= 1_u64 << k }
set1(s1, l, k, r) == IF r > l THEN s1 \cup Shl({0}, k) ELSE s1

\* The u8 addition self.lgn + 1 overflows at 255.
AddFaults(l) == l + 1 > 255

\* Mutant of set2: the threshold of sketch1, r > lgn, used for sketch2.
set2_same(s2, l, k, r) == IF r > l THEN s2 \cup Shl({0}, k) ELSE s2

\* Mutant of set2: lgn - 1 in place of lgn + 1.
set2_minus1(s2, l, k, r) == IF r > l - 1 THEN s2 \cup Shl({0}, k) ELSE s2

\* if r > (self.lgn + 1).into() { self.sketch2 |= 1_u64 << k }
set2(s2, l, k, r) == IF r > l + 1 THEN s2 \cup Shl({0}, k) ELSE s2

\* Mutant of full: the threshold one lower.
full_over30(s1) == count_ones(s1) > 30

\* Mutant of full: the threshold one higher.
full_over32(s1) == count_ones(s1) > 32

\* if self.sketch1.count_ones() > 31
full(s1) == count_ones(s1) > 31

\* Mutant of incr: the scale stepped twice.
incr_twice(l) == l + 2

\* Mutant of incr: the increment left out.
incr_none(l) == l

\* Mutant of incr: the scale stepped down.
incr_down(l) == l - 1

\* self.lgn += 1
incr(l) == l + 1

\* The body of insert after hashing, on the fields s (lgn, sketch1, sketch2)
\* and the hash value h.  The result holds the fields as the call leaves
\* them, `rescaled` for the branch taken and `fault` for an arithmetic fault,
\* which stops the call where it happens with the fields as assigned so far.
insert(s, h) ==
    LET k == bucket(h)
        r == rank(h)
        s1 == set1(s.sketch1, s.lgn, k, r)
        s2 == set2(s.sketch2, s.lgn, k, r)
    IN
    IF SubFaults(h)
    THEN [lgn |-> s.lgn, sketch1 |-> s.sketch1, sketch2 |-> s.sketch2,
          fault |-> "sub", rescaled |-> FALSE]
    ELSE IF r > s.lgn /\ ShlFaults(k)
    THEN [lgn |-> s.lgn, sketch1 |-> s.sketch1, sketch2 |-> s.sketch2,
          fault |-> "shl", rescaled |-> FALSE]
    ELSE IF AddFaults(s.lgn)
    THEN [lgn |-> s.lgn, sketch1 |-> s1, sketch2 |-> s.sketch2,
          fault |-> "add", rescaled |-> FALSE]
    ELSE IF full(s1)
    THEN [lgn |-> incr(s.lgn) % 256, sketch1 |-> s2, sketch2 |-> {},
          fault |-> IF incr(s.lgn) \in 0 .. 255 THEN "none" ELSE "inc",
          rescaled |-> TRUE]
    ELSE [lgn |-> s.lgn, sketch1 |-> s1, sketch2 |-> s2,
          fault |-> "none", rescaled |-> FALSE]

\* Mutant of exponent: 5.0 in place of 5.4.
exponent_5(l, s1) == 160 * l + 800 + 5 * count_ones(s1)

\* let exponent: f64 = self.lgn as f64 + 5.4 + (count_ones as f64) / 32.0,
\* in 160ths: 160 * (lgn + 27/5 + n/32).
exponent(l, s1) == 160 * l + 864 + 5 * count_ones(s1)

(***************************************************************************)
(* f64::powf(2.0, exponent) as u64.  The value is the integer part of      *)
(* 2^(e/160), computed exactly: the greatest n with n^q <= 2^p for         *)
(* e/160 = p/q in lowest terms.  A power is kept as N digits in base 2^15, *)
(* least significant first.  It is evaluated where the value is below      *)
(* 2^30, that is for exponents below 30.                                   *)
(***************************************************************************)
RECURSIVE GCD(_, _)
GCD(a, b) == IF b = 0 THEN a ELSE GCD(b, a % b)

\* The sum over i in a..b of the low digits of X[i] * Y[k + 1 - i].
RECURSIVE SumLo(_, _, _, _, _)
SumLo(X, Y, k, a, b) ==
    IF a > b THEN 0
    ELSE IF a = b THEN (X[a] * Y[k + 1 - a]) % 32768
    ELSE SumLo(X, Y, k, a, (a + b) \div 2) + SumLo(X, Y, k, (a + b) \div 2 + 1, b)

\* The sum over i in a..b of the high digits of X[i] * Y[k + 1 - i].
RECURSIVE SumHi(_, _, _, _, _)
SumHi(X, Y, k, a, b) ==
    IF a > b THEN 0
    ELSE IF a = b THEN (X[a] * Y[k + 1 - a]) \div 32768
    ELSE SumHi(X, Y, k, a, (a + b) \div 2) + SumHi(X, Y, k, (a + b) \div 2 + 1, b)

\* One round of carries.  (Appending <<>> makes the function a tuple of
\* evaluated digits.)
Pass(D, N) ==
    [k \in 1 .. N |-> (D[k] % 32768) + (IF k > 1 THEN D[k - 1] \div 32768 ELSE 0)]
        \o <<>>

\* Carries propagated until every digit is below the base.
RECURSIVE Carry(_, _)
Carry(D, N) ==
    IF \A k \in 1 .. N : D[k] < 32768 THEN D ELSE Carry(Pass(D, N), N)

\* X * Y, which fits N digits
Mul(X, Y, N) ==
    Carry([k \in 1 .. N |-> SumLo(X, Y, k, 1, k) + SumHi(X, Y, k - 1, 1, k - 1)]
              \o <<>>, N)

\* n < 2^30 as N digits
Digits(n, N) ==
    [k \in 1 .. N |-> IF k = 1 THEN n % 32768
                      ELSE IF k = 2 THEN n \div 32768 ELSE 0] \o <<>>

\* n^q for q >= 1, by squaring
RECURSIVE Power(_, _, _)
Power(n, q, N) ==
    IF q = 1 THEN Digits(n, N)
    ELSE IF q % 2 = 0
         THEN LET H == Power(n, q \div 2, N) IN Mul(H, H, N)
         ELSE Mul(Power(n, q - 1, N), Digits(n, N), N)

\* X <= 2^p
LeqPow2(X, p, N) ==
    LET i == (p \div 15) + 1
        top == 2 ^ (p % 15)
    IN /\ \A j \in (i + 1) .. N : X[j] = 0
       /\ \/ X[i] < top
          \/ X[i] = top /\ \A j \in 1 .. (i - 1) : X[j] = 0

\* The greatest n = acc + (some of the bits b .. 0) with n^q <= 2^p.
RECURSIVE FloorRoot(_, _, _, _)
FloorRoot(p, q, b, acc) ==
    IF b < 0 THEN acc
    ELSE IF LeqPow2(Power(acc + 2 ^ b, q, (p + q) \div 15 + 2), p, (p + q) \div 15 + 2)
         THEN FloorRoot(p, q, b - 1, acc + 2 ^ b)
         ELSE FloorRoot(p, q, b - 1, acc)

\* f64::powf(2.0, e / 160) as u64
powf2(e) ==
    LET g == GCD(e, 160)
        p == e \div g
        q == 160 \div g
    IN FloorRoot(p, q, p \div q, 0)

\* HyperBitBit::cardinality on the fields lgn = l and sketch1 = s1
cardinality(l, s1) == powf2(exponent(l, s1))

\* The three fields of the sketch in the current state.
Fields == [lgn |-> lgn, sketch1 |-> sketch1, sketch2 |-> sketch2]

(***************************************************************************)
(* Serialization of the three fields (derive(Serialize, Deserialize)):     *)
(* each field is written at its declared width, lgn as 8 binary digits and *)
(* sketch1, sketch2 as 64 binary digits each, most significant first, and  *)
(* read back from the digits.                                              *)
(***************************************************************************)
\* The w binary digits of n, most significant first; digits past w are lost.
DigitsOf(n, w) == [i \in 1 .. w |-> (n \div (2 ^ (w - i))) % 2]

\* The number a sequence of binary digits spells.
RECURSIVE NumberOf(_)
NumberOf(d) ==
    IF d = <<>> THEN 0 ELSE 2 * NumberOf(SubSeq(d, 1, Len(d) - 1)) + d[Len(d)]

\* The 64 binary digits of a u64, most significant first.
DigitsOf64(x) == [i \in 1 .. 64 |-> IF (64 - i) \in x THEN 1 ELSE 0]

\* The u64 that 64 binary digits spell.
BitsOf64(d) == {64 - i : i \in {j \in 1 .. 64 : d[j] = 1}}

serialize(s) ==
    [lgn |-> DigitsOf(s.lgn, 8),
     sketch1 |-> DigitsOf64(s.sketch1),
     sketch2 |-> DigitsOf64(s.sketch2)]

\* Mutant of deserialize: the two sketches read in each other's place.
deserialize_swapped(e) ==
    [lgn |-> NumberOf(e.lgn),
     sketch1 |-> BitsOf64(e.sketch2),
     sketch2 |-> BitsOf64(e.sketch1)]

deserialize(e) ==
    [lgn |-> NumberOf(e.lgn),
     sketch1 |-> BitsOf64(e.sketch1),
     sketch2 |-> BitsOf64(e.sketch2)]

(***************************************************************************)
(* The hash values offered to insert.                                      *)
(***************************************************************************)
\* A hash value with bucket k and rank r: the low 6 bits spell k, and bit
\* 63 - r is the highest set bit (none of bits 6..63 is set for rank 58).
\* For an odd bucket two bits below the highest are set too.
MkHash(k, r) ==
    {b \in 0 .. 5 : (k \div (2 ^ b)) % 2 = 1}
    \cup (IF r <= 57 THEN {63 - r} ELSE {})
    \cup (IF k % 2 = 1 /\ r <= 55 THEN {6, 62 - r} ELSE {})

Ranks == {0} \cup (5 .. 5 + LowRanks) \cup ((59 - HighRanks) .. 58)

Ordered == Loose .. 63

\* Among the buckets used in ascending order, the set ones are the first few.
Canonical(x) ==
    x \cap Ordered = Loose .. (Loose + Cardinality(x \cap Ordered) - 1)

\* The next bucket in ascending order that x has not set.
NextClear(x) == IF Ordered \subseteq x THEN {} ELSE {Min(Ordered \ x)}

\* The hash values offered in the current state.
Offered ==
    {MkHash(k, r) : k \in (0 .. Loose - 1) \cup NextClear(sketch1), r \in Ranks}

(***************************************************************************)
(* Specification                                                           *)
(***************************************************************************)
\* The bucket of the element h when its rank is above l, as a set.
above(h, l) == IF rank(h) > l THEN {bucket(h)} ELSE {}

\* HyperBitBit::new()
Init ==
    /\ lgn = DefaultLgn
    /\ sketch1 = {}
    /\ sketch2 = {}
    /\ fault = "none"
    /\ inserted = 0
    /\ returned = NoCall
    /\ seen1 = {}
    /\ seen2 = {}

\* HyperBitBit::insert, from the hash value on
Insert(h) ==
    /\ fault = "none"
    /\ \E t \in {insert(Fields, h)} :
        /\ Canonical(t.sketch1)
        /\ Canonical(t.sketch2)
        /\ lgn' = t.lgn
        /\ sketch1' = t.sketch1
        /\ sketch2' = t.sketch2
        /\ fault' = t.fault
        /\ seen1' = IF t.lgn = lgn THEN seen1 \cup above(h, lgn)
                     ELSE IF t.lgn = lgn + 1 THEN seen2 \cup above(h, lgn + 1)
                     ELSE {}
        /\ seen2' = IF t.lgn = lgn THEN seen2 \cup above(h, lgn + 1) ELSE {}
    /\ inserted' = IF inserted < MaxCount THEN inserted + 1 ELSE inserted
    /\ returned' = NoCall

\* HyperBitBit::cardinality
Estimate ==
    /\ fault = "none"
    /\ returned' = exponent(lgn, sketch1)
    /\ UNCHANGED <<lgn, sketch1, sketch2, fault, inserted, seen1, seen2>>

Next ==
    \/ \E h \in Offered : Insert(h)
    \/ Estimate

Spec == Init /\ [][Next]_vars

(***************************************************************************)
(* Properties                                                              *)
(***************************************************************************)
\* The fields a and b hold the same lgn, sketch1 and sketch2.
SameFields(a, b) ==
    a.lgn = b.lgn /\ a.sketch1 = b.sketch1 /\ a.sketch2 = b.sketch2

\* C1 as stated: after every insert, sketch1 holds at most 31 set bits.
C1_PopcountAtMost31 == count_ones(sketch1) <= 31

\* C1 amended: after every insert sketch1 holds at most 32 set bits, and at
\* most 31 after an insert that did not rescale.
C1_PopcountAtMost32 ==
    /\ count_ones(sketch1) <= 32
    /\ \A h \in Offered : \A t \in {insert(Fields, h)} :
          ~t.rescaled => count_ones(t.sketch1) <= 31

\* A rescale has copied a sketch2 of 32 set bits into sketch1.
C1_Witness == lgn > DefaultLgn /\ count_ones(sketch1) = 32

\* C2 as stated: in every reachable state and for every element, a second
\* insert of the element right after the first leaves the fields as the
\* first left them.
C2_Idempotent ==
    \A h \in Offered : \A t \in {insert(Fields, h)} :
        SameFields(insert(t, h), t)

\* C2 amended: a second insert of the same element leaves the fields as the
\* first left them whenever the first did not rescale.
C2_IdempotentWithoutRescale ==
    \A h \in Offered : \A t \in {insert(Fields, h)} :
        ~t.rescaled => SameFields(insert(t, h), t)

\* After some inserts, an element is offered whose insert sets a new bit of
\* sketch1 without a rescale.
C2_Witness ==
    /\ inserted > 0
    /\ \E h \in Offered : \E t \in {insert(Fields, h)} :
          ~t.rescaled /\ t.sketch1 # sketch1

\* C3: no step lowers lgn, and the u8 never wraps.
C3_LgnMonotonic == [][lgn' >= lgn /\ fault' = "none"]_vars

\* lgn has been raised.
C3_Witness == lgn > DefaultLgn /\ inserted > 0

\* C4: a sketch no insert has touched has lgn = 5, sketch1 = 0, sketch2 = 0,
\* and its cardinality() is 1351.
C4_FreshConstant ==
    inserted = 0 =>
        /\ lgn = 5 /\ sketch1 = {} /\ sketch2 = {}
        /\ cardinality(lgn, sketch1) = 1351
        /\ (returned # NoCall => powf2(returned) = 1351)

\* cardinality() has returned on a sketch no insert has touched.
C4_Witness == inserted = 0 /\ returned # NoCall

\* C5 as stated: after at most two inserts into a fresh sketch, cardinality()
\* still returns 1351, lgn is 5 and sketch1 has no bit set.
C5_TwoInsertsKeep1351 ==
    (inserted <= 2 /\ returned # NoCall) =>
        powf2(returned) = 1351 /\ lgn = 5 /\ count_ones(sketch1) = 0

\* C5 amended: an insert of an element of rank at most 5 leaves a fresh
\* sketch as it was, with lgn = 5, no bit set and cardinality() = 1351.
C5_LowRanksKeep1351 ==
    (lgn = DefaultLgn /\ sketch1 = {} /\ sketch2 = {}) =>
        /\ cardinality(lgn, sketch1) = 1351
        /\ \A h \in Offered :
              rank(h) <= 5 => SameFields(insert(Fields, h), Fields)

\* Two inserts have left the sketch fresh, and cardinality() has returned.
C5_Witness ==
    /\ inserted = 2
    /\ lgn = DefaultLgn /\ sketch1 = {} /\ sketch2 = {}
    /\ returned # NoCall

\* For every bucket and every rank, the hash value's leading_zeros() - 6
\* does not underflow and its bucket is a shift below 64.
EveryHashDecomposes ==
    \A k \in 0 .. 63 : \A r \in 0 .. 58 :
        ~SubFaults(MkHash(k, r)) /\ ~ShlFaults(bucket(MkHash(k, r)))

\* C6: no operation has stopped on an arithmetic fault, and no offered
\* insert would: leading_zeros() - 6 does not underflow, 1 << k shifts by
\* less than 64, and lgn + 1 and lgn += 1 stay within a u8.
C6_NoFault ==
    /\ fault = "none"
    /\ EveryHashDecomposes
    /\ \A h \in Offered :
          /\ ~SubFaults(h)
          /\ ~ShlFaults(bucket(h))
          /\ ~AddFaults(lgn)
          /\ insert(Fields, h).fault = "none"

\* Inserts have completed at the highest scale.
C6_Witness == lgn = 58 /\ fault = "none"

\* C7: the exponent lgn + 5.4 + popcount(sketch1)/32 stays below 64, that
\* is 32 * lgn + popcount(sketch1) < 1876.
C7_ExponentBelow64 ==
    /\ 32 * lgn + count_ones(sketch1) < 1876
    /\ exponent(lgn, sketch1) < 64 * 160
    /\ (returned # NoCall => returned < 64 * 160)

\* cardinality() has returned on the highest exponent, 63.4.
C7_Witness == returned = 10144

\* C10: the fields read back from their serialization are the fields, and
\* give the same exponent, hence the same cardinality().
C10_RoundTrip ==
    /\ SameFields(deserialize(serialize(Fields)), Fields)
    /\ exponent(deserialize(serialize(Fields)).lgn,
                deserialize(serialize(Fields)).sketch1)
           = exponent(lgn, sketch1)

\* A sketch past its first rescale whose two bitsets differ and are not
\* empty.
C10_Witness ==
    /\ lgn > DefaultLgn
    /\ sketch1 # {} /\ sketch2 # {} /\ sketch1 # sketch2

\* C11: an insert rescales exactly when sketch1, with the element's bit
\* applied, holds 32 bits or more; the rescale leaves sketch1 equal to
\* sketch2 with the element's bit applied, sketch2 equal to 0 and lgn one
\* higher; an insert that does not rescale leaves lgn as it was.
C11_RescaleStep ==
    \A h \in Offered : \A t \in {insert(Fields, h)} :
        /\ t.rescaled <=> count_ones(sketch1 \cup above(h, lgn)) >= 32
        /\ t.rescaled =>
              /\ t.sketch1 = sketch2 \cup above(h, lgn + 1)
              /\ t.sketch2 = {}
              /\ t.lgn = lgn + 1
        /\ ~t.rescaled => t.lgn = lgn

\* After a rescale, an element is offered whose insert rescales again and
\* carries its own bit and earlier bits of sketch2 over into sketch1.
C11_Witness ==
    /\ lgn > DefaultLgn
    /\ sketch2 # {}
    /\ \E h \in Offered : \E t \in {insert(Fields, h)} :
          t.rescaled /\ t.sketch1 # sketch2

\* C12: an insert that does not rescale leaves bit k of sketch1 set if
\* r > lgn and bit k of sketch2 set if r > lgn + 1, sets no bit otherwise,
\* clears no bit, changes no bit other than bit k, and leaves lgn as it was.
C12_BitSettingFrame ==
    \A h \in Offered : \A t \in {insert(Fields, h)} :
        \A k \in {bucket(h)} : \A r \in {rank(h)} :
            ~t.rescaled =>
                /\ sketch1 \subseteq t.sketch1
                /\ sketch2 \subseteq t.sketch2
                /\ t.sketch1 \ sketch1 \subseteq {k}
                /\ t.sketch2 \ sketch2 \subseteq {k}
                /\ r > lgn => k \in t.sketch1
                /\ r > lgn + 1 => k \in t.sketch2
                /\ r <= lgn => t.sketch1 = sketch1
                /\ r <= lgn + 1 => t.sketch2 = sketch2
                /\ t.lgn = lgn

\* With other bits set already, an element of rank lgn + 1 and a new bucket
\* is offered: its insert sets its bit of sketch1 and none of sketch2.
C12_Witness ==
    /\ sketch1 # {}
    /\ sketch2 # {}
    /\ \E h \in Offered : \E t \in {insert(Fields, h)} :
          /\ ~t.rescaled
          /\ rank(h) = lgn + 1
          /\ bucket(h) \notin sketch1
          /\ t.sketch1 = sketch1 \cup {bucket(h)}
          /\ t.sketch2 = sketch2

\* C13: every set bit k of sketch1 is the bucket of an element inserted
\* earlier whose rank is above the current lgn, and every set bit k of
\* sketch2 is the bucket of an element inserted earlier whose rank is above
\* the current lgn + 1.
C13_BitsJustified ==
    /\ sketch1 \subseteq seen1
    /\ sketch2 \subseteq seen2

\* After a rescale, sketch1 holds a bit carried over from sketch2 and a bit
\* set since, and sketch2 holds a bit.
C13_Witness ==
    /\ lgn > DefaultLgn
    /\ sketch2 # {}
    /\ sketch1 \ sketch2 # {}
    /\ count_ones(sketch1) > 2

\* C14: lgn never exceeds 58, the highest rank an element can have.
C14_LgnAtMost58 ==
    /\ lgn <= 58
    /\ \A h \in Offered : rank(h) <= 58 /\ insert(Fields, h).lgn <= 58

\* lgn has reached 58 and an element of rank 58 is offered.
C14_Witness == lgn = 58 /\ \E h \in Offered : rank(h) = 58

\* Some element, of any bucket and any rank (highest first), changes the
\* fields when inserted.
SomeInsertChanges ==
    \E d \in 0 .. 58 : \E j \in 0 .. 63 :
        ~SameFields(insert(Fields, MkHash(63 - j, 58 - d)), Fields)

\* C15 as stated: in every reachable state the insert of some element
\* changes the state.
C15_NoTerminalState == SomeInsertChanges

\* C15 amended: while lgn is below 58 the insert of some element changes the
\* state; at lgn = 58 both sketches are 0 and no insert changes the state.
C15_FrozenOnlyAt58 ==
    /\ lgn < 58 => SomeInsertChanges
    /\ lgn >= 58 => sketch1 = {} /\ sketch2 = {} /\ ~SomeInsertChanges

\* At lgn = 57 sketch1 holds 31 bits: one more insert is the last rescale.
C15_Witness == lgn = 57 /\ count_ones(sketch1) = 31

\* h mod 64: the bits from 30 up are multiples of 64.
Mod64(h) == ToNat(h \cap (0 .. 29)) % 64

\* The hash values of any low 6 bits and at most two bits set among the
\* upper 58: bucket is h mod 64 within 0..63, and rank is within 0..58 and
\* the same whatever the low 6 bits are.
SampledHashesDecompose ==
    \A a \in 6 .. 63 : \A b \in a .. 63 : \A low \in SUBSET (0 .. 5) :
        /\ bucket({a, b} \cup low) = Mod64({a, b} \cup low)
        /\ bucket({a, b} \cup low) \in 0 .. 63
        /\ bucket(low) = Mod64(low)
        /\ rank({a, b} \cup low) \in 0 .. 58
        /\ rank({a, b} \cup low) = rank({a, b})
        /\ rank(low) = 58

\* C16: the bucket of a hash value is h mod 64 and lies in 0..63; its rank
\* lies in 0..58 and depends on the upper 58 bits only.
C16_HashDecomposition ==
    /\ SampledHashesDecompose
    /\ \A h \in Offered : \A k \in {bucket(h)} : \A r \in {rank(h)} :
          /\ k = Mod64(h) /\ k \in 0 .. 63
          /\ r \in 0 .. 58 /\ r = rank(h \ (0 .. 5))

\* Elements of bucket 31 are offered, one of them of rank 58.
C16_Witness == \E h \in Offered : bucket(h) = 31 /\ rank(h) = 58

\* C17: every bit set in sketch2 is set in sketch1, between inserts and,
\* within every offered insert, after its two bit-setting steps and before
\* its rescale test.
C17_Containment ==
    /\ sketch2 \subseteq sketch1
    /\ \A h \in Offered :
          set2(sketch2, lgn, bucket(h), rank(h))
              \subseteq set1(sketch1, lgn, bucket(h), rank(h))

\* After a rescale sketch2 holds several bits and sketch1 holds more, and an
\* element is offered that sets its bit in both.
C17_Witness ==
    /\ lgn > DefaultLgn
    /\ count_ones(sketch2) > 1
    /\ count_ones(sketch1) > count_ones(sketch2)
    /\ \E h \in Offered : bucket(h) \notin sketch1 /\ rank(h) > lgn + 1

\* C18: no insert lowers 32 * lgn + popcount(sketch1), nor the exponent of
\* cardinality() that it determines, a rescale included.
C18_EstimateNeverDown ==
    \A h \in Offered : \A t \in {insert(Fields, h)} :
        /\ 32 * t.lgn + count_ones(t.sketch1) >= 32 * lgn + count_ones(sketch1)
        /\ exponent(t.lgn, t.sketch1) >= exponent(lgn, sketch1)

\* After a rescale, an element is offered whose insert rescales again and
\* leaves sketch1 with fewer bits than it had.
C18_Witness ==
    /\ lgn > DefaultLgn
    /\ \E h \in Offered : \E t \in {insert(Fields, h)} :
          t.rescaled /\ count_ones(t.sketch1) < count_ones(sketch1) - 8

\* C19 as stated: an insert of an element of rank r <= lgn leaves lgn,
\* sketch1 and sketch2 as they were.
C19_LowRankNoOp ==
    \A h \in Offered :
        rank(h) <= lgn => SameFields(insert(Fields, h), Fields)

\* C19 amended: an insert of an element of rank r <= lgn leaves lgn,
\* sketch1 and sketch2 as they were when sketch1 holds at most 31 bits; when
\* sketch1 holds 32 bits it sets no bit and rescales.
C19_LowRankNoOpBelow32 ==
    \A h \in Offered : \A t \in {insert(Fields, h)} :
        rank(h) <= lgn =>
            /\ count_ones(sketch1) <= 31 => SameFields(t, Fields)
            /\ count_ones(sketch1) > 31 =>
                  /\ t.sketch1 = sketch2
                  /\ t.sketch2 = {}
                  /\ t.lgn = lgn + 1

\* After a rescale, with sketch1 holding 31 bits, an element of rank lgn
\* or less is offered.
C19_Witness ==
    /\ lgn > DefaultLgn
    /\ count_ones(sketch1) = 31
    /\ \E h \in Offered : rank(h) <= lgn /\ bucket(h) \notin sketch1

====
